---------------------------- MODULE Spec2Model ----------------------------
(***************************************************************************)
(* Model of the recipe-app-api backend: the identity store (core/models.py *)
(* UserManager, user/serializers.py, user/views.py) and the owner-scoped   *)
(* Tag / Ingredient / Recipe endpoints (recipe/serializers.py,             *)
(* recipe/views.py).                                                       *)
(*                                                                         *)
(* Text values (emails, passwords, names, query parameters) are sequences  *)
(* of one-character strings, so that strip / split / lower / int parsing   *)
(* are computed character by character as the Python code does.            *)
(***************************************************************************)
EXTENDS Integers, Sequences, FiniteSets, TLC

(***************************************************************************)
(* Bounds of the model.                                                    *)
(***************************************************************************)
MaxUsers == 2
MaxTags == 1
MaxIngredients == 1
MaxRecipes == 2
MaxFilenameLen == 4
MaxAttrs == 2

(***************************************************************************)
(* Python values.                                                          *)
(***************************************************************************)
\* Python's None: a one-element sequence no text value can equal, since every
\* element of a text value is a single character.
None == <<"None">>
\* A key that the request payload / query string does not carry.
Absent == <<"Absent">>
\* No identity (request.user is AnonymousUser) / no row.
NoUser == 0

IsText(v) == v # None /\ v # Absent

Max(S) == CHOOSE x \in S : \A y \in S : y <= x

(***************************************************************************)
(* str methods used by the code.                                           *)
(***************************************************************************)
UpperCase == <<"A", "B", "C">>
LowerCase == <<"a", "b", "c">>

\* str.lower() on one character
LowerChar(c) ==
    IF \E i \in 1..Len(UpperCase) : UpperCase[i] = c
    THEN LowerCase[CHOOSE i \in 1..Len(UpperCase) : UpperCase[i] = c]
    ELSE c

\* str.lower()
Lower(s) == [i \in 1..Len(s) |-> LowerChar(s[i])]

IsSpace(c) == c = " "

\* str.strip()
Strip(s) ==
    LET keep == {i \in 1..Len(s) : ~IsSpace(s[i])}
    IN  IF keep = {} THEN <<>>
        ELSE LET lo == CHOOSE i \in keep : \A j \in keep : i <= j
                 hi == Max(keep)
             IN  SubSeq(s, lo, hi)

\* positions of character c in s
Positions(s, c) == {i \in 1..Len(s) : s[i] = c}

\* s.split(c): the list of pieces between the occurrences of c
RECURSIVE Split(_, _)
Split(s, c) ==
    IF Positions(s, c) = {} THEN <<s>>
    ELSE LET i == CHOOSE k \in Positions(s, c) : \A j \in Positions(s, c) : k <= j
         IN  <<SubSeq(s, 1, i - 1)>> \o Split(SubSeq(s, i + 1, Len(s)), c)

(***************************************************************************)
(* django.contrib.auth helpers used by core/models.py                      *)
(***************************************************************************)
\* normalize_email with the whole address lower-cased, not only the domain
normalize_email_LowerAll(email) ==
    LET e == IF email = None THEN <<>> ELSE email
        t == Strip(e)
    IN  IF Positions(t, "@") = {} THEN e ELSE Lower(t)

\* BaseUserManager.normalize_email: "email or ''", then
\* email.strip().rsplit('@', 1); without an '@' the value is returned as it
\* is, with one the domain part is lower-cased.
normalize_email(email) ==
    LET e == IF email = None THEN <<>> ELSE email
        t == Strip(e)
    IN  IF Positions(t, "@") = {} THEN e
        ELSE LET at == Max(Positions(t, "@"))
             IN  SubSeq(t, 1, at - 1) \o <<"@">> \o Lower(SubSeq(t, at + 1, Len(t)))

\* AbstractBaseUser.set_password -> make_password: a salted one-way hash,
\* abstracted as an injective encoding "<algorithm>$<digest of raw>"; None
\* gives an unusable password ("!...").
UnusablePassword == <<"!">>
make_password(raw) ==
    IF raw = None THEN UnusablePassword ELSE <<"pbkdf2_sha256$">> \o raw

\* AbstractBaseUser.check_password
check_password(raw, encoded) ==
    /\ raw # None
    /\ encoded # UnusablePassword
    /\ encoded = make_password(raw)

VARIABLES
    users,        \* core_user rows: sequence, row id = index
    tokens,       \* authtoken_token rows: ids of the users that hold a token
    tags,         \* core_tag rows: sequence, row id = index
    ingredients,  \* core_ingredient rows: sequence, row id = index
    recipes,      \* core_recipe rows with their m2m rows: function id -> row
    nextRecipeId, \* next value of the core_recipe id sequence
    last,         \* the last call or request and its outcome
    wait,         \* the run of the wait_for_db command
    inflight      \* requests in progress on concurrent connections

store == <<users, tokens, tags, ingredients, recipes, nextRecipeId>>
vars == <<users, tokens, tags, ingredients, recipes, nextRecipeId, last,
          wait, inflight>>

\* wait_for_db is not running; no request is in progress besides the one
\* an action handles from start to end
NoWait ==
    [pc |-> "idle", db |-> <<>>, db_conn |-> FALSE, attempts |-> 0,
     sleeps |-> 0, out |-> <<>>]
NoInflight == <<>>

UserIds == 1..Len(users)

\* **extra_fields: the keyword arguments given besides email and password
NoExtra == <<>>
ExtraField(extra, f, default) == IF f \in DOMAIN extra THEN extra[f] ELSE default

\* The shape of `last`; every operation fills in the fields it uses.
NoLast ==
    [op |-> "init", method |-> "", who |-> NoUser, status |-> 0, raised |-> "",
     email |-> Absent, password |-> Absent, name |-> Absent,
     validated |-> [email |-> Absent, password |-> Absent, name |-> Absent],
     pk |-> 0, id |-> 0, tags_q |-> Absent, ingredients_q |-> Absent,
     queried |-> FALSE, before |-> <<>>, data |-> <<>>, extra |-> NoExtra]

(***************************************************************************)
(* core/models.py: UserManager                                             *)
(***************************************************************************)
\* the row with this exact email, or NoUser (the unique index on email and
\* get_by_natural_key both compare the stored text exactly)
UserByEmail(us, email) ==
    IF \E i \in 1..Len(us) : us[i].email = email
    THEN CHOOSE i \in 1..Len(us) : us[i].email = email
    ELSE NoUser

\* self.model(email=self.normalize_email(email), **extra_fields) with
\* set_password(password); a column not among the extra fields takes the
\* default of the model.
NewUser(email, password, extra) ==
    [email |-> normalize_email(email), password |-> make_password(password),
     name |-> ExtraField(extra, "name", <<>>),
     is_active |-> ExtraField(extra, "is_active", TRUE),
     is_staff |-> ExtraField(extra, "is_staff", FALSE),
     is_superuser |-> ExtraField(extra, "is_superuser", FALSE)]

\* create_user without the check of the email
create_user_NoEmailCheck(us, email, password, extra) ==
    IF UserByEmail(us, normalize_email(email)) # NoUser
    THEN [raised |-> "IntegrityError", users |-> us, id |-> NoUser]
    ELSE [raised |-> "", id |-> Len(us) + 1,
          users |-> Append(us, NewUser(email, password, extra))]

\* create_user on an email column declared without unique=True
create_user_NotUnique(us, email, password, extra) ==
    IF email = None \/ email = <<>>
    THEN [raised |-> "ValueError", users |-> us, id |-> NoUser]
    ELSE [raised |-> "", id |-> Len(us) + 1,
          users |-> Append(us, NewUser(email, password, extra))]

\* The outcome of UserManager.create_user: the exception raised ("" if none)
\* and the table afterwards.
create_user(us, email, password, extra) ==
    IF email = None \/ email = <<>>
    THEN [raised |-> "ValueError", users |-> us, id |-> NoUser]
    ELSE IF UserByEmail(us, normalize_email(email)) # NoUser
    THEN [raised |-> "IntegrityError", users |-> us, id |-> NoUser]
    ELSE [raised |-> "", id |-> Len(us) + 1,
          users |-> Append(us, NewUser(email, password, extra))]

\* create_superuser leaving the flags as create_user set them
create_superuser_NoFlags(us, email, password) ==
    create_user(us, email, password, NoExtra)

\* The outcome of UserManager.create_superuser.
create_superuser(us, email, password) ==
    LET r == create_user(us, email, password, NoExtra)
    IN  IF r.raised # "" THEN r
        ELSE [r EXCEPT !.users[r.id].is_staff = TRUE,
                       !.users[r.id].is_superuser = TRUE]

\* A direct call of get_user_model().objects.create_user(email, password,
\* **extra).
CreateUser(email, password, extra) ==
    /\ UNCHANGED <<wait, inflight>>
    /\ Len(users) < MaxUsers
    /\ LET r == create_user(users, email, password, extra)
       IN  /\ users' = r.users
           /\ last' = [NoLast EXCEPT !.op = "create_user", !.raised = r.raised,
                          !.email = email, !.password = password,
                          !.name = ExtraField(extra, "name", Absent),
                          !.extra = extra, !.id = r.id, !.before = users]
    /\ UNCHANGED <<tokens, tags, ingredients, recipes, nextRecipeId>>

\* A direct call of get_user_model().objects.create_superuser(email, password).
CreateSuperuser(email, password) ==
    /\ UNCHANGED <<wait, inflight>>
    /\ Len(users) < MaxUsers
    /\ LET r == create_superuser(users, email, password)
       IN  /\ users' = r.users
           /\ last' = [NoLast EXCEPT !.op = "create_superuser",
                          !.raised = r.raised, !.email = email,
                          !.password = password, !.id = r.id,
                          !.before = users]
    /\ UNCHANGED <<tokens, tags, ingredients, recipes, nextRecipeId>>

(***************************************************************************)
(* django.contrib.auth.authenticate with ModelBackend, as called by        *)
(* AuthTokenSerializer.validate                                            *)
(***************************************************************************)
\* authenticate with a backend that accepts inactive users
authenticate_AllowInactive(us, username, password) ==
    LET u == UserByEmail(us, username)
    IN  IF u # NoUser /\ check_password(password, us[u].password)
        THEN u ELSE NoUser

authenticate(us, username, password) ==
    LET u == UserByEmail(us, username)
    IN  IF /\ u # NoUser
           /\ check_password(password, us[u].password)
           /\ us[u].is_active
        THEN u ELSE NoUser

(***************************************************************************)
(* rest_framework: authentication and permissions of the views             *)
(***************************************************************************)
\* The Authorization header of a request: NoCred when there is none, else
\* the token key it carries.  The key of user u's token is modelled as u; a
\* key with no authtoken_token row is an invalid key.
NoCred == 0
Creds == 0..(MaxUsers + 1)

\* authentication_classes = (TokenAuthentication,): the identity bound to
\* the request, NoUser when the key is unknown or its user is inactive.
TokenAuthentication(cred) ==
    IF cred \in tokens /\ cred \in UserIds /\ users[cred].is_active
    THEN cred ELSE NoUser

\* permission_classes with RecipeViewSet left open
permission_classes_RecipesOpen(view) ==
    CASE view = "me" -> "IsAuthenticated"
      [] view = "tags" -> "IsAuthenticated"
      [] view = "ingredients" -> "IsAuthenticated"
      [] OTHER -> "AllowAny"

\* permission_classes of each view
permission_classes(view) ==
    CASE view = "me" -> "IsAuthenticated"              \* ManageUserView
      [] view = "tags" -> "IsAuthenticated"            \* TagViewSet
      [] view = "ingredients" -> "IsAuthenticated"     \* IngredientViewSet
      [] view = "recipes" -> "IsAuthenticated"         \* RecipeViewSet
      [] OTHER -> "AllowAny"

\* APIView.initial: perform_authentication raises AuthenticationFailed for
\* a bad key, check_permissions raises NotAuthenticated for an anonymous
\* request; both are answered 401, before the handler is looked up.
Unauthorized(view, cred) ==
    \/ cred # NoCred /\ TokenAuthentication(cred) = NoUser
    \/ permission_classes(view) = "IsAuthenticated"
         /\ TokenAuthentication(cred) = NoUser

Respond401(op, method, cred) ==
    /\ last' = [NoLast EXCEPT !.op = op, !.method = method, !.status = 401]
    /\ UNCHANGED store

(***************************************************************************)
(* user/serializers.py: UserSerializer                                     *)
(***************************************************************************)
MinPasswordLength == 8

AtomChars == {"a", "b", "c", "A", "B", "C"}

\* non-empty runs of atom characters separated by single dots
DotAtom(s) ==
    LET parts == Split(s, ".")
    IN  \A i \in 1..Len(parts) :
            /\ parts[i] # <<>>
            /\ \A j \in 1..Len(parts[i]) : parts[i][j] \in AtomChars

\* django.core.validators.EmailValidator, run by the serializer's EmailField
ValidEmail(v) ==
    /\ Positions(v, "@") # {}
    /\ LET at == Max(Positions(v, "@"))
           user_part == SubSeq(v, 1, at - 1)
           domain_part == SubSeq(v, at + 1, Len(v))
           labels == Split(domain_part, ".")
       IN  /\ DotAtom(user_part)
           /\ DotAtom(domain_part)
           /\ Len(labels) >= 2
           /\ Len(labels[Len(labels)]) >= 2

UserFields == {"email", "password", "name"}

\* The value a CharField hands on: surrounding whitespace trimmed.
UserValidated(payload) ==
    [f \in UserFields |->
        IF payload[f] = Absent THEN Absent ELSE Strip(payload[f])]

\* The fields of the payload that fail validation.  A missing field is an
\* error unless the update is partial; the email must be a valid address
\* that no other row holds (UniqueValidator, exact match); the password has
\* min_length 8; no field may be blank.
UserFieldErrors(us, payload, partial, instance) ==
    LET v == UserValidated(payload)
    IN  {f \in UserFields :
            IF v[f] = Absent THEN ~partial
            ELSE \/ v[f] = <<>>
                 \/ f = "email" /\ ~ValidEmail(v[f])
                 \/ f = "email" /\ UserByEmail(us, v[f]) \notin {NoUser, instance}
                 \/ f = "password" /\ Len(v[f]) < MinPasswordLength}

\* the keys of a payload that are no fields of UserSerializer (ignored)
PayloadExtra(payload) == [f \in DOMAIN payload \ UserFields |-> payload[f]]

ErrorBody(errors) == [f \in errors |-> <<"error">>]

\* UserSerializer.data with the password readable
UserRepresentation_WithPassword(user) ==
    [email |-> user.email, password |-> user.password, name |-> user.name]

\* UserSerializer.data: fields = ('email', 'password', 'name') with the
\* password write_only.
UserRepresentation(user) == [email |-> user.email, name |-> user.name]

\* UserSerializer.update that leaves the password to ModelSerializer.update,
\* which stores it as given
UserSerializer_update_Plain(user, validated) ==
    [user EXCEPT
       !.email = IF validated.email = Absent THEN @ ELSE validated.email,
       !.name = IF validated.name = Absent THEN @ ELSE validated.name,
       !.password = IF validated.password = Absent THEN @ ELSE validated.password]

\* UserSerializer.update: pop the password, ModelSerializer.update assigns
\* the remaining validated fields as they are, then set_password if a
\* password was given.
UserSerializer_update(user, validated) ==
    LET u1 == [user EXCEPT
                 !.email = IF validated.email = Absent THEN @ ELSE validated.email,
                 !.name = IF validated.name = Absent THEN @ ELSE validated.name]
    IN  IF validated.password # Absent /\ validated.password # <<>>
        THEN [u1 EXCEPT !.password = make_password(validated.password)]
        ELSE u1

(***************************************************************************)
(* user/views.py                                                           *)
(***************************************************************************)
\* POST /users: CreateUserView (CreateAPIView, no authentication required).
\* UserSerializer.create calls create_user(**validated_data).
Register(payload) ==
    /\ UNCHANGED <<wait, inflight>>
    /\ Len(users) < MaxUsers
    /\ LET errors == UserFieldErrors(users, payload, FALSE, NoUser)
           v == UserValidated(payload)
           r == create_user(users, v.email, v.password, [name |-> v.name])
           base == [NoLast EXCEPT !.op = "register", !.method = "POST",
                       !.before = users, !.extra = PayloadExtra(payload)]
       IN  IF errors # {}
           THEN /\ last' = [base EXCEPT !.status = 400, !.data = ErrorBody(errors)]
                /\ UNCHANGED store
           ELSE IF r.raised # ""
           THEN \* the exception is not handled: a server error
                /\ last' = [base EXCEPT !.status = 500, !.raised = r.raised,
                               !.validated = v]
                /\ UNCHANGED store
           ELSE /\ users' = r.users
                /\ last' = [base EXCEPT !.status = 201, !.id = r.id,
                               !.validated = v,
                               !.data = UserRepresentation(r.users[r.id])]
                /\ UNCHANGED <<tokens, tags, ingredients, recipes, nextRecipeId>>

\* POST /users/token: CreateTokenView with AuthTokenSerializer.  email is a
\* CharField (trimmed), password a CharField with trim_whitespace=False;
\* both are required and may not be blank.
CreateToken(email, password) ==
    /\ UNCHANGED <<wait, inflight>>
    /\ LET e == IF email = Absent THEN Absent ELSE Strip(email)
           u == IF e \in {Absent, <<>>} \/ password \in {Absent, <<>>}
                THEN NoUser ELSE authenticate(users, e, password)
           base == [NoLast EXCEPT !.op = "token", !.method = "POST",
                       !.email = email, !.password = password]
       IN  IF u = NoUser
           THEN /\ last' = [base EXCEPT !.status = 400,
                               !.data = [non_field_errors |-> <<"error">>]]
                /\ UNCHANGED store
           ELSE /\ tokens' = tokens \cup {u}
                /\ last' = [base EXCEPT !.status = 200, !.who = u, !.id = u,
                               !.data = [token |-> u]]
                /\ UNCHANGED <<users, tags, ingredients, recipes, nextRecipeId>>

\* a get_object that returns the first row of the user table
ManageUserView_get_object_First(request_user) == 1

\* ManageUserView.get_object: return self.request.user
ManageUserView_get_object(request_user) == request_user

\* /users/me: ManageUserView (RetrieveUpdateAPIView).
Me(cred, method, payload) ==
    /\ UNCHANGED <<wait, inflight>>
    /\ LET who == TokenAuthentication(cred)
           partial == method = "PATCH"
           errors == UserFieldErrors(users, payload, partial, who)
           v == UserValidated(payload)
           me == ManageUserView_get_object(who)
           base == [NoLast EXCEPT !.op = "me", !.method = method, !.who = who,
                       !.before = users, !.extra = PayloadExtra(payload)]
       IN  IF Unauthorized("me", cred) THEN Respond401("me", method, cred)
           ELSE IF who = NoUser
           THEN \* AnonymousUser has no row to serialize
                /\ last' = [base EXCEPT !.status = 500, !.queried = TRUE]
                /\ UNCHANGED store
           ELSE IF method = "GET"
           THEN /\ last' = [base EXCEPT !.status = 200, !.queried = TRUE, !.id = me,
                               !.data = UserRepresentation(users[me])]
                /\ UNCHANGED store
           ELSE IF method \in {"PUT", "PATCH"}
           THEN IF errors # {}
                THEN /\ last' = [base EXCEPT !.status = 400, !.queried = TRUE,
                                    !.data = ErrorBody(errors)]
                     /\ UNCHANGED store
                ELSE /\ users' = [users EXCEPT ![me] = UserSerializer_update(@, v)]
                     /\ last' = [base EXCEPT !.status = 200, !.queried = TRUE,
                                    !.id = me, !.validated = v,
                                    !.data = UserRepresentation(users'[me])]
                     /\ UNCHANGED <<tokens, tags, ingredients, recipes, nextRecipeId>>
           ELSE /\ last' = [base EXCEPT !.status = 405]
                /\ UNCHANGED store

(***************************************************************************)
(* recipe/serializers.py and recipe/views.py                               *)
(***************************************************************************)
\* A payload without the key of a relationship / of a number.
AbsentIds == {-1}
AbsentNum == -1

\* The characters of the model in code point order, for ORDER BY.
Alphabet == <<" ", ",", ".", "0", "1", "2", "3", "4", "5", "6", "7", "8", "9",
              "@", "A", "B", "C", "a", "b", "c", "g", "j", "p", "x">>
Code(c) == CHOOSE i \in 1..Len(Alphabet) : Alphabet[i] = c

\* a <= b in the order of the name column
TextLeq(a, b) ==
    LET n == IF Len(a) < Len(b) THEN Len(a) ELSE Len(b)
        diff == {i \in 1..n : a[i] # b[i]}
    IN  IF diff = {} THEN Len(a) <= Len(b)
        ELSE LET k == CHOOSE i \in diff : \A j \in diff : i <= j
             IN  Code(a[k]) < Code(b[k])

Digits == <<"0", "1", "2", "3", "4", "5", "6", "7", "8", "9">>
IsDigit(c) == \E i \in 1..Len(Digits) : Digits[i] = c
DigitValue(c) == (CHOOSE i \in 1..Len(Digits) : Digits[i] = c) - 1

RECURSIVE Decimal(_)
Decimal(t) ==
    IF t = <<>> THEN 0
    ELSE 10 * Decimal(SubSeq(t, 1, Len(t) - 1)) + DigitValue(t[Len(t)])

\* int(str_id): surrounding whitespace is ignored; anything but a non-empty
\* run of digits raises ValueError.
ParseInt(str_id) ==
    LET t == Strip(str_id)
    IN  IF t # <<>> /\ \A i \in 1..Len(t) : IsDigit(t[i])
        THEN [ok |-> TRUE, value |-> Decimal(t)]
        ELSE [ok |-> FALSE, value |-> 0]

\* RecipeViewSet._params_to_ints: [int(str_id) for str_id in qs.split(',')]
params_to_ints(qs) ==
    LET parts == Split(qs, ",")
    IN  [ok |-> \A i \in 1..Len(parts) : ParseInt(parts[i]).ok,
         ids |-> {ParseInt(parts[i]).value : i \in 1..Len(parts)}]

\* a query parameter that is given and not the empty string
Truthy(q) == q # Absent /\ q # <<>>

\* TagIngredientAttrViewSet.get_queryset with order_by('name')
attr_queryset_Ascending(rows, user) ==
    LET ids == {i \in 1..Len(rows) : rows[i].user = user}
    IN  {s \in [1..Cardinality(ids) -> ids] :
            /\ \A i, j \in 1..Cardinality(ids) : i # j => s[i] # s[j]
            /\ \A i, j \in 1..Cardinality(ids) :
                  i < j => TextLeq(rows[s[i]].name, rows[s[j]].name)}

\* TagIngredientAttrViewSet.get_queryset:
\* queryset.filter(user=request.user).order_by('-name').  The result is the
\* set of orders the database may return the user's rows in: descending by
\* name, rows of equal name in any order.
attr_queryset(rows, user) ==
    LET ids == {i \in 1..Len(rows) : rows[i].user = user}
    IN  {s \in [1..Cardinality(ids) -> ids] :
            /\ \A i, j \in 1..Cardinality(ids) : i # j => s[i] # s[j]
            /\ \A i, j \in 1..Cardinality(ids) :
                  i < j => TextLeq(rows[s[j]].name, rows[s[i]].name)}

\* TagSerializer / IngredientSerializer: fields = ('id', 'name')
AttrRepresentation(rows, id) == [id |-> id, name |-> rows[id].name]

\* RecipeViewSet.get_queryset without the filter on the user
recipe_queryset_All(rs, user, tags_q, ingredients_q) ==
    LET t == IF Truthy(tags_q) THEN params_to_ints(tags_q)
             ELSE [ok |-> TRUE, ids |-> {}]
        g == IF Truthy(ingredients_q) THEN params_to_ints(ingredients_q)
             ELSE [ok |-> TRUE, ids |-> {}]
        n(r) == (IF Truthy(tags_q) THEN Cardinality(rs[r].tags \cap t.ids) ELSE 1)
              * (IF Truthy(ingredients_q)
                 THEN Cardinality(rs[r].ingredients \cap g.ids) ELSE 1)
        hit == {r \in DOMAIN rs : n(r) > 0}
    IN  IF ~t.ok \/ ~g.ok
        THEN [raised |-> "ValueError", rows |-> <<>>]
        ELSE [raised |-> "", rows |-> [r \in hit |-> n(r)]]

\* RecipeViewSet.get_queryset without the filter on the ingredients
recipe_queryset_TagsOnly(rs, user, tags_q, ingredients_q) ==
    LET t == IF Truthy(tags_q) THEN params_to_ints(tags_q)
             ELSE [ok |-> TRUE, ids |-> {}]
        n(r) == IF Truthy(tags_q) THEN Cardinality(rs[r].tags \cap t.ids) ELSE 1
        hit == {r \in DOMAIN rs : rs[r].user = user /\ n(r) > 0}
    IN  IF ~t.ok
        THEN [raised |-> "ValueError", rows |-> <<>>]
        ELSE [raised |-> "", rows |-> [r \in hit |-> n(r)]]

\* RecipeViewSet.get_queryset.  The result is the exception raised, or the
\* rows as a bag: a recipe is returned once for every pair of a linked tag
\* among the tag ids and a linked ingredient among the ingredient ids (each
\* filter() joins the relationship table), and only if the user owns it.
recipe_queryset(rs, user, tags_q, ingredients_q) ==
    LET t == IF Truthy(tags_q) THEN params_to_ints(tags_q)
             ELSE [ok |-> TRUE, ids |-> {}]
        g == IF Truthy(ingredients_q) THEN params_to_ints(ingredients_q)
             ELSE [ok |-> TRUE, ids |-> {}]
        n(r) == (IF Truthy(tags_q) THEN Cardinality(rs[r].tags \cap t.ids) ELSE 1)
              * (IF Truthy(ingredients_q)
                 THEN Cardinality(rs[r].ingredients \cap g.ids) ELSE 1)
        hit == {r \in DOMAIN rs : rs[r].user = user /\ n(r) > 0}
    IN  IF ~t.ok \/ ~g.ok
        THEN [raised |-> "ValueError", rows |-> <<>>]
        ELSE [raised |-> "", rows |-> [r \in hit |-> n(r)]]

\* GenericAPIView.get_object on RecipeViewSet: get_queryset(), then
\* get_object_or_404(queryset, pk=pk).  The status it ends the request with
\* (0: the object was found).
get_object(rs, user, pk, tags_q, ingredients_q) ==
    LET q == recipe_queryset(rs, user, tags_q, ingredients_q)
    IN  IF q.raised # "" THEN 500
        ELSE IF pk \notin DOMAIN q.rows THEN 404
        ELSE IF q.rows[pk] > 1 THEN 500     \* MultipleObjectsReturned
        ELSE 0

\* RecipeSerializer: fields id, title, ingredients, tags, time_minutes,
\* price, link; the relationships as lists of primary keys.
RecipeRepresentation(rs, id) ==
    [id |-> id, title |-> rs[id].title, ingredients |-> rs[id].ingredients,
     tags |-> rs[id].tags, time_minutes |-> rs[id].time_minutes,
     price |-> rs[id].price, link |-> rs[id].link]

\* RecipeDetailSerializer: the relationships as nested objects.
RecipeDetailRepresentation(rs, id) ==
    [id |-> id, title |-> rs[id].title,
     ingredients |-> {AttrRepresentation(ingredients, g) : g \in rs[id].ingredients},
     tags |-> {AttrRepresentation(tags, t) : t \in rs[id].tags},
     time_minutes |-> rs[id].time_minutes,
     price |-> rs[id].price, link |-> rs[id].link]

RecipeFields == {"title", "time_minutes", "price", "link", "tags", "ingredients"}
RecipeAbsent(f) ==
    IF f \in {"tags", "ingredients"} THEN AbsentIds
    ELSE IF f \in {"time_minutes", "price"} THEN AbsentNum ELSE Absent

\* The value each field of RecipeSerializer hands on (RecipeAbsent(f): the
\* field is left out of validated_data).  title and link are trimmed; a
\* relationship missing from a form payload reads as the empty list, unless
\* the update is partial (ManyRelatedField.get_value).
RecipeValidated(payload, partial, html) ==
    [f \in RecipeFields |->
        IF f \in {"title", "link"}
        THEN IF payload[f] = Absent THEN Absent ELSE Strip(payload[f])
        ELSE IF f \in {"tags", "ingredients"}
        THEN IF payload[f] = AbsentIds /\ html /\ ~partial THEN {} ELSE payload[f]
        ELSE payload[f]]

\* field validation of a serializer whose title has allow_blank=True
RecipeFieldErrors_BlankTitleOk(payload, partial, html) ==
    LET v == RecipeValidated(payload, partial, html)
    IN  {f \in RecipeFields :
            IF v[f] = RecipeAbsent(f) THEN ~partial /\ f # "link"
            ELSE \/ f = "tags" /\ ~(v[f] \subseteq 1..Len(tags))
                 \/ f = "ingredients" /\ ~(v[f] \subseteq 1..Len(ingredients))}

\* The fields of the payload that fail validation: a missing field unless it
\* is the link or the update is partial, a blank title, a primary key that
\* is not in Tag.objects.all() / Ingredient.objects.all().
RecipeFieldErrors(payload, partial, html) ==
    LET v == RecipeValidated(payload, partial, html)
    IN  {f \in RecipeFields :
            IF v[f] = RecipeAbsent(f) THEN ~partial /\ f # "link"
            ELSE \/ f = "title" /\ v[f] = <<>>
                 \/ f = "tags" /\ ~(v[f] \subseteq 1..Len(tags))
                 \/ f = "ingredients" /\ ~(v[f] \subseteq 1..Len(ingredients))}

\* ModelSerializer.create with a save() that passes the first user
RecipeCreated_FirstUser(user, v) ==
    [user |-> 1, title |-> v.title, time_minutes |-> v.time_minutes,
     price |-> v.price, link |-> IF v.link = Absent THEN <<>> ELSE v.link,
     tags |-> v.tags, ingredients |-> v.ingredients, image |-> None]

\* ModelSerializer.create with perform_create's save(user=request.user):
\* the row and its relationship rows.
RecipeCreated(user, v) ==
    [user |-> user, title |-> v.title, time_minutes |-> v.time_minutes,
     price |-> v.price, link |-> IF v.link = Absent THEN <<>> ELSE v.link,
     tags |-> v.tags, ingredients |-> v.ingredients, image |-> None]

\* ModelSerializer.update adding a validated relationship to the linked set
RecipeUpdated_Merge(row, v) ==
    [row EXCEPT
       !.title = IF v.title = Absent THEN @ ELSE v.title,
       !.time_minutes = IF v.time_minutes = AbsentNum THEN @ ELSE v.time_minutes,
       !.price = IF v.price = AbsentNum THEN @ ELSE v.price,
       !.link = IF v.link = Absent THEN @ ELSE v.link,
       !.tags = IF v.tags = AbsentIds THEN @ ELSE @ \cup v.tags,
       !.ingredients = IF v.ingredients = AbsentIds THEN @ ELSE @ \cup v.ingredients]

\* ModelSerializer.update leaving the relationships as they are
RecipeUpdated_ScalarsOnly(row, v) ==
    [row EXCEPT
       !.title = IF v.title = Absent THEN @ ELSE v.title,
       !.time_minutes = IF v.time_minutes = AbsentNum THEN @ ELSE v.time_minutes,
       !.price = IF v.price = AbsentNum THEN @ ELSE v.price,
       !.link = IF v.link = Absent THEN @ ELSE v.link]

\* ModelSerializer.update: every validated field is assigned, a validated
\* relationship replaces the linked set.
RecipeUpdated(row, v) ==
    [row EXCEPT
       !.title = IF v.title = Absent THEN @ ELSE v.title,
       !.time_minutes = IF v.time_minutes = AbsentNum THEN @ ELSE v.time_minutes,
       !.price = IF v.price = AbsentNum THEN @ ELSE v.price,
       !.link = IF v.link = Absent THEN @ ELSE v.link,
       !.tags = IF v.tags = AbsentIds THEN @ ELSE v.tags,
       !.ingredients = IF v.ingredients = AbsentIds THEN @ ELSE v.ingredients]

\* recipe_image_filepath taking what follows the first dot
recipe_image_filepath_FirstDot(instance, filename, uuid) ==
    LET parts == Split(filename, ".")
        extension == IF Len(parts) >= 2 THEN parts[2] ELSE parts[1]
    IN  <<"uploads/recipe/", uuid, ".">> \o extension

\* core/models.py recipe_image_filepath: the extension is what follows the
\* last dot of the file name; uuid is the value uuid.uuid4() returns.
recipe_image_filepath(instance, filename, uuid) ==
    LET parts == Split(filename, ".")
        extension == parts[Len(parts)]
    IN  <<"uploads/recipe/", uuid, ".">> \o extension

\* A call of models.recipe_image_filepath(instance, filename) while
\* uuid.uuid4() returns uuid; instance is None (0) or a recipe.
CallRecipeImageFilepath(instance, filename, uuid) ==
    /\ UNCHANGED <<wait, inflight>>
    /\ last' = [NoLast EXCEPT !.op = "recipe_image_filepath", !.pk = instance,
                   !.name = filename, !.extra = [uuid |-> uuid],
                   !.data = recipe_image_filepath(instance, filename, uuid)]
    /\ UNCHANGED store

\* The image of an upload-image payload: left out (Absent), empty (None), a
\* value that is no image file, or an image file with a name.
NotImage == <<"not image">>
ImageExtensions == {<<"j", "p", "g">>, <<"p", "n", "g">>}
\* ImageField validation: an image file whose name has an image extension
ValidImage(image) ==
    /\ image # NotImage
    /\ LET parts == Split(image, ".")
       IN  Len(parts) >= 2 /\ Lower(parts[Len(parts)]) \in ImageExtensions

\* /tags and /ingredients: TagIngredientAttrViewSet (list and create).
\* assigned_only is the query parameter of that name; the view never reads it.
Attr(view, cred, method, name, assigned_only) ==
    /\ UNCHANGED <<wait, inflight>>
    /\ LET who == TokenAuthentication(cred)
           rows == IF view = "tags" THEN tags ELSE ingredients
           v == IF name = Absent THEN Absent ELSE Strip(name)
           base == [NoLast EXCEPT !.op = view, !.method = method, !.who = who,
                       !.name = name, !.extra = [assigned_only |-> assigned_only]]
       IN  IF Unauthorized(view, cred) THEN Respond401(view, method, cred)
           ELSE IF method = "GET"
           THEN IF who = NoUser
                THEN \* filter(user=AnonymousUser) raises TypeError
                     /\ last' = [base EXCEPT !.status = 500, !.queried = TRUE]
                     /\ UNCHANGED store
                ELSE /\ \E s \in attr_queryset(rows, who) :
                           last' = [base EXCEPT !.status = 200, !.queried = TRUE,
                                       !.data = [i \in DOMAIN s |->
                                                    AttrRepresentation(rows, s[i])]]
                     /\ UNCHANGED store
           ELSE IF method = "POST"
           THEN IF v \in {Absent, <<>>}
                THEN /\ last' = [base EXCEPT !.status = 400,
                                    !.data = ErrorBody({"name"})]
                     /\ UNCHANGED store
                ELSE IF who = NoUser
                THEN \* save(user=AnonymousUser) raises ValueError
                     /\ last' = [base EXCEPT !.status = 500]
                     /\ UNCHANGED store
                ELSE /\ IF view = "tags"
                        THEN /\ tags' = Append(tags, [name |-> v, user |-> who])
                             /\ UNCHANGED ingredients
                        ELSE /\ ingredients' = Append(ingredients, [name |-> v, user |-> who])
                             /\ UNCHANGED tags
                     /\ last' = [base EXCEPT !.status = 201, !.id = Len(rows) + 1,
                                    !.data = [id |-> Len(rows) + 1, name |-> v]]
                     /\ UNCHANGED <<users, tokens, recipes, nextRecipeId>>
           ELSE /\ last' = [base EXCEPT !.status = 405]
                /\ UNCHANGED store

\* /recipes: RecipeViewSet list and create.
Recipes(cred, method, tags_q, ingredients_q, payload, html) ==
    /\ UNCHANGED <<wait, inflight>>
    /\ LET who == TokenAuthentication(cred)
           q == recipe_queryset(recipes, who, tags_q, ingredients_q)
           errors == RecipeFieldErrors(payload, FALSE, html)
           v == RecipeValidated(payload, FALSE, html)
           base == [NoLast EXCEPT !.op = "recipes", !.method = method, !.who = who,
                       !.tags_q = tags_q, !.ingredients_q = ingredients_q]
       IN  IF Unauthorized("recipes", cred) THEN Respond401("recipes", method, cred)
           ELSE IF method = "GET"
           THEN IF q.raised # "" \/ who = NoUser
                THEN /\ last' = [base EXCEPT !.status = 500, !.queried = TRUE,
                                    !.raised = q.raised]
                     /\ UNCHANGED store
                ELSE /\ last' = [base EXCEPT !.status = 200, !.queried = TRUE,
                                    !.data = q.rows]
                     /\ UNCHANGED store
           ELSE IF method = "POST"
           THEN IF errors # {}
                THEN /\ last' = [base EXCEPT !.status = 400, !.data = ErrorBody(errors),
                                    !.extra = [payload |-> payload, html |-> html]]
                     /\ UNCHANGED store
                ELSE IF who = NoUser
                THEN /\ last' = [base EXCEPT !.status = 500]
                     /\ UNCHANGED store
                ELSE /\ recipes' = [r \in DOMAIN recipes \cup {nextRecipeId} |->
                                       IF r = nextRecipeId THEN RecipeCreated(who, v)
                                       ELSE recipes[r]]
                     /\ nextRecipeId' = nextRecipeId + 1
                     /\ last' = [base EXCEPT !.status = 201, !.id = nextRecipeId,
                                    !.extra = [payload |-> payload, html |-> html],
                                    !.data = RecipeRepresentation(recipes', nextRecipeId)]
                     /\ UNCHANGED <<users, tokens, tags, ingredients>>
           ELSE /\ last' = [base EXCEPT !.status = 405]
                /\ UNCHANGED store

\* /recipes/{pk}: RecipeViewSet retrieve, update, partial_update, destroy.
RecipeDetail(cred, method, pk, tags_q, ingredients_q, payload, html) ==
    /\ UNCHANGED <<wait, inflight>>
    /\ LET who == TokenAuthentication(cred)
           found == get_object(recipes, who, pk, tags_q, ingredients_q)
           partial == method = "PATCH"
           errors == RecipeFieldErrors(payload, partial, html)
           v == RecipeValidated(payload, partial, html)
           base == [NoLast EXCEPT !.op = "recipe_detail", !.method = method,
                       !.who = who, !.pk = pk, !.tags_q = tags_q,
                       !.ingredients_q = ingredients_q]
       IN  IF Unauthorized("recipes", cred)
           THEN Respond401("recipe_detail", method, cred)
           ELSE IF method \notin {"GET", "PUT", "PATCH", "DELETE"}
           THEN /\ last' = [base EXCEPT !.status = 405]
                /\ UNCHANGED store
           ELSE IF who = NoUser \/ found # 0
           THEN /\ last' = [base EXCEPT !.queried = TRUE,
                               !.status = IF who = NoUser THEN 500 ELSE found]
                /\ UNCHANGED store
           ELSE IF method = "GET"
           THEN /\ last' = [base EXCEPT !.status = 200, !.queried = TRUE, !.id = pk,
                               !.data = RecipeDetailRepresentation(recipes, pk)]
                /\ UNCHANGED store
           ELSE IF method = "DELETE"
           THEN /\ recipes' = [r \in DOMAIN recipes \ {pk} |-> recipes[r]]
                /\ last' = [base EXCEPT !.status = 204, !.queried = TRUE, !.id = pk]
                /\ UNCHANGED <<users, tokens, tags, ingredients, nextRecipeId>>
           ELSE IF errors # {}
           THEN /\ last' = [base EXCEPT !.status = 400, !.queried = TRUE,
                               !.extra = [payload |-> payload, html |-> html],
                               !.data = ErrorBody(errors)]
                /\ UNCHANGED store
           ELSE /\ recipes' = [recipes EXCEPT ![pk] = RecipeUpdated(@, v)]
                /\ last' = [base EXCEPT !.status = 200, !.queried = TRUE, !.id = pk,
                               !.extra = [payload |-> payload, html |-> html],
                               !.before = recipes[pk],
                               !.data = RecipeRepresentation(recipes', pk)]
                /\ UNCHANGED <<users, tokens, tags, ingredients, nextRecipeId>>

\* /recipes/{pk}/upload-image: RecipeViewSet.upload_image with
\* RecipeImageSerializer (fields id, image; the image is not required).
UploadImage(cred, method, pk, tags_q, ingredients_q, image, uuid) ==
    /\ UNCHANGED <<wait, inflight>>
    /\ LET who == TokenAuthentication(cred)
           found == get_object(recipes, who, pk, tags_q, ingredients_q)
           base == [NoLast EXCEPT !.op = "upload_image", !.method = method,
                       !.who = who, !.pk = pk, !.tags_q = tags_q,
                       !.ingredients_q = ingredients_q,
                       !.extra = [image |-> image, uuid |-> uuid]]
       IN  IF Unauthorized("recipes", cred)
           THEN Respond401("upload_image", method, cred)
           ELSE IF method # "POST"
           THEN /\ last' = [base EXCEPT !.status = 405]
                /\ UNCHANGED store
           ELSE IF who = NoUser \/ found # 0
           THEN /\ last' = [base EXCEPT !.queried = TRUE,
                               !.status = IF who = NoUser THEN 500 ELSE found]
                /\ UNCHANGED store
           ELSE IF image = Absent
           THEN /\ last' = [base EXCEPT !.status = 200, !.queried = TRUE, !.id = pk,
                               !.data = [id |-> pk, image |-> recipes[pk].image]]
                /\ UNCHANGED store
           ELSE IF image = None
           THEN \* an empty value is read as null, which the field allows
                /\ recipes' = [recipes EXCEPT ![pk].image = None]
                /\ last' = [base EXCEPT !.status = 200, !.queried = TRUE, !.id = pk,
                               !.data = [id |-> pk, image |-> None]]
                /\ UNCHANGED <<users, tokens, tags, ingredients, nextRecipeId>>
           ELSE IF ~ValidImage(image)
           THEN /\ last' = [base EXCEPT !.status = 400, !.queried = TRUE,
                               !.data = ErrorBody({"image"})]
                /\ UNCHANGED store
           ELSE /\ recipes' = [recipes EXCEPT ![pk].image =
                                  recipe_image_filepath(recipes[pk], image, uuid)]
                /\ last' = [base EXCEPT !.status = 200, !.queried = TRUE, !.id = pk,
                               !.data = [id |-> pk, image |-> recipes'[pk].image]]
                /\ UNCHANGED <<users, tokens, tags, ingredients, nextRecipeId>>

(***************************************************************************)
(* Text values the specifications draw their inputs from.                  *)
(***************************************************************************)
Txt_ab == <<"a", "@", "b", ".", "c", "c">>          \* a@b.cc
Txt_Ab == <<"A", "@", "b", ".", "c", "c">>          \* A@b.cc
Txt_aB == <<"a", "@", "B", ".", "c", "c">>          \* a@B.cc
Txt_sp == <<" ", "a", "@", "B", ".", "c", "c">>     \* " a@B.cc"
Txt_no == <<"a", "b">>                              \* ab  (no @)
Txt_bb == <<"b", "@", "b", ".", "c", "c">>          \* b@b.cc
Pw1 == <<"p", "a", "s", "s", "w", "o", "r", "1">>
Pw2 == <<"p", "a", "s", "s", "w", "o", "r", "2">>
PwShort == <<"p", "w">>
Name1 == <<"A", "n", "n">>
Name2 == <<"B", "o", "b">>
Methods == {"GET", "POST", "PUT", "PATCH", "DELETE"}
NoPayload == [email |-> Absent, password |-> Absent, name |-> Absent]

EmptyDatabase ==
    /\ users = <<>>
    /\ tokens = {}
    /\ tags = <<>>
    /\ ingredients = <<>>
    /\ recipes = <<>>
    /\ nextRecipeId = 1
    /\ last = NoLast
    /\ wait = NoWait
    /\ inflight = NoInflight

(***************************************************************************)
(* SpecUser: the user manager called directly (create_user,                *)
(* create_superuser) and credential verification, from an empty database.  *)
(***************************************************************************)
DirectEmails == {None, <<>>, Txt_ab, Txt_Ab, Txt_aB, Txt_sp, Txt_no}
DirectPasswords == {None, Pw1, Pw2}
LoginEmails == {Absent, Txt_ab, Txt_Ab, Txt_aB, Txt_sp, Txt_no}
LoginPasswords == {Absent, <<>>, Pw1, Pw2}

NextUser ==
    \/ \E e \in DirectEmails, p \in DirectPasswords : CreateUser(e, p, [name |-> Name1])
    \/ \E e \in DirectEmails, p \in DirectPasswords : CreateSuperuser(e, p)
    \/ \E e \in LoginEmails, p \in LoginPasswords : CreateToken(e, p)

SpecUser == EmptyDatabase /\ [][NextUser]_vars

(***************************************************************************)
(* SpecProfile: the public user endpoints (POST /users, POST /users/token, *)
(* /users/me), from an empty database.                                     *)
(***************************************************************************)
RegisterPayloads ==
    [email : {Absent, Txt_ab, Txt_Ab, Txt_aB}, password : {Pw1, PwShort},
     name : {Name1}]
UpdatePayloads ==
    [email : {Absent, Txt_aB}, password : {Absent, Pw2, PwShort},
     name : {Absent, Name2}]
TokenEmails == {Absent, Txt_ab, Txt_Ab, Txt_aB}
TokenPasswords == {Absent, Pw1, Pw2}

NextProfile ==
    \/ \E payload \in RegisterPayloads : Register(payload)
    \/ \E e \in TokenEmails, p \in TokenPasswords : CreateToken(e, p)
    \/ \E cred \in Creds, m \in {"PUT", "PATCH"}, payload \in UpdatePayloads :
          Me(cred, m, payload)
    \/ \E cred \in Creds, m \in Methods \ {"PUT", "PATCH"} : Me(cred, m, NoPayload)

SpecProfile == EmptyDatabase /\ [][NextProfile]_vars

(***************************************************************************)
(* SpecToken: POST /users/token against users created active or inactive,  *)
(* with or without a usable password.                                      *)
(***************************************************************************)
Txt_ab_sp == <<" ">> \o Txt_ab                       \* " a@b.cc"
AccountEmails == {Txt_ab, Txt_Ab}
AccountPasswords == {None, Pw1}
ExchangeEmails == {Absent, <<>>, Txt_ab, Txt_Ab, Txt_ab_sp, Txt_bb}
ExchangePasswords == {Absent, <<>>, Pw1, Pw2}

NextToken ==
    \/ \E e \in AccountEmails, p \in AccountPasswords, active \in BOOLEAN :
          CreateUser(e, p, [name |-> Name1, is_active |-> active])
    \/ \E e \in ExchangeEmails, p \in ExchangePasswords : CreateToken(e, p)

SpecToken == EmptyDatabase /\ [][NextToken]_vars

(***************************************************************************)
(* The recipe endpoints, used by two registered users holding tokens.      *)
(***************************************************************************)
TagA == <<"a">>
Title1 == <<"p", "a", "x">>
Q_1 == <<"1">>
Q_x == <<"x">>
Uuid1 == "uuid-1"

NoRecipePayload ==
    [title |-> Absent, time_minutes |-> AbsentNum, price |-> AbsentNum,
     link |-> Absent, tags |-> AbsentIds, ingredients |-> AbsentIds]

\* Requests with a recipe payload: the empty JSON body, and bodies with the
\* scalar fields and a choice of relationships; a body without the tags key
\* is sent as a form.
RecipeRequests ==
    {[payload |-> NoRecipePayload, html |-> FALSE]} \cup
    {[payload |-> p, html |-> p.tags = AbsentIds] :
        p \in [title : {Title1}, time_minutes : {5}, price : {500},
               link : {Absent},
               tags : {AbsentIds} \cup SUBSET (1..MaxTags),
               ingredients : SUBSET (1..MaxIngredients)]}

TagParams == {Absent, Q_1, Q_x}
IngredientParams == {Absent, Q_1}
DetailParams == {Absent, Q_x}
Pks == 1..MaxRecipes
Uploads == {Absent, NotImage}
SeededCreds == {1, 2}

\* two users registered through create_user, each with a token
TwoUsers ==
    /\ users = create_user(create_user(<<>>, Txt_ab, Pw1, [name |-> Name1]).users,
                           Txt_bb, Pw2, [name |-> Name2]).users
    /\ tokens = SeededCreds
    /\ tags = <<>>
    /\ ingredients = <<>>
    /\ recipes = <<>>
    /\ nextRecipeId = 1
    /\ last = NoLast
    /\ wait = NoWait
    /\ inflight = NoInflight

Next ==
    \* requests without a valid token, and methods a route does not allow
    \/ \E cred \in Creds \ {2}, m \in Methods : Me(cred, m, NoPayload)
    \/ \E view \in {"tags", "ingredients"}, cred \in Creds \ {2}, m \in Methods \ {"GET"} :
          Attr(view, cred, m, Absent, Absent)
    \/ \E cred \in Creds \ {2}, m \in Methods \ {"GET"} :
          Recipes(cred, m, Absent, Absent, NoRecipePayload, FALSE)
    \/ \E cred \in Creds \ {2}, m \in Methods, pk \in {1} :
          RecipeDetail(cred, m, pk, Absent, Absent, NoRecipePayload, FALSE)
    \/ \E cred \in Creds \ {2}, m \in Methods, pk \in {1} :
          UploadImage(cred, m, pk, Absent, Absent, Absent, Uuid1)
    \* requests of the two users
    \/ \E view \in {"tags", "ingredients"}, cred \in SeededCreds :
          Attr(view, cred, "GET", Absent, Absent)
    \* (the tags and ingredients are the first user's: the states where they
    \* are the second user's are the same with the users exchanged)
    \/ Len(tags) < MaxTags /\ Attr("tags", 1, "POST", TagA, Absent)
    \/ Len(ingredients) < MaxIngredients /\ Attr("ingredients", 1, "POST", TagA, Absent)
    \/ \E cred \in SeededCreds, tq \in TagParams, iq \in IngredientParams :
          Recipes(cred, "GET", tq, iq, NoRecipePayload, FALSE)
    \/ \E cred \in SeededCreds, req \in RecipeRequests :
          nextRecipeId <= MaxRecipes
            /\ Recipes(cred, "POST", Absent, Absent, req.payload, req.html)
    \/ \E cred \in SeededCreds, pk \in Pks, tq \in DetailParams :
          RecipeDetail(cred, "GET", pk, tq, Absent, NoRecipePayload, FALSE)
    \/ \E cred \in SeededCreds, pk \in Pks :
          RecipeDetail(cred, "DELETE", pk, Absent, Absent, NoRecipePayload, FALSE)
    \/ \E cred \in SeededCreds, m \in {"PUT", "PATCH"}, pk \in Pks,
          req \in RecipeRequests :
          RecipeDetail(cred, m, pk, Absent, Absent, req.payload, req.html)
    \/ \E cred \in SeededCreds, pk \in Pks, tq \in DetailParams, image \in Uploads :
          UploadImage(cred, "POST", pk, tq, Absent, image, Uuid1)

Spec == TwoUsers /\ [][Next]_vars

(***************************************************************************)
(* SpecAttr: tags and ingredients created under two names in any order,    *)
(* linked to recipes, and listed with and without assigned_only.           *)
(***************************************************************************)
TagB == <<"b">>
One == <<"1">>
AttrNames == {TagA, TagB}
AttrRecipePayloads ==
    [title : {Title1}, time_minutes : {5}, price : {500}, link : {Absent},
     tags : SUBSET (1..MaxAttrs), ingredients : {{}, {1}}]

NextAttr ==
    \/ \E cred \in SeededCreds, name \in AttrNames :
          Len(tags) < MaxAttrs /\ Attr("tags", cred, "POST", name, Absent)
    \/ \E name \in AttrNames :
          Len(ingredients) < MaxAttrs /\ Attr("ingredients", 1, "POST", name, Absent)
    \/ \E view \in {"tags", "ingredients"}, cred \in SeededCreds,
          assigned_only \in {Absent, One} :
          Attr(view, cred, "GET", Absent, assigned_only)
    \/ \E payload \in AttrRecipePayloads :
          nextRecipeId <= MaxRecipes
            /\ Recipes(1, "POST", Absent, Absent, payload, FALSE)

SpecAttr == TwoUsers /\ [][NextAttr]_vars

(***************************************************************************)
(* SpecFilter: recipes of both users linked to the first user's tags and   *)
(* ingredient, listed with the tags and ingredients filters.               *)
(***************************************************************************)
Q_2 == <<"2">>
Q_12 == <<"1", ",", "2">>
FilterTagParams == {Absent, Q_1, Q_2, Q_12}
FilterIngredientParams == {Absent, Q_1}
FilterRecipePayloads ==
    [title : {Title1}, time_minutes : {5}, price : {500}, link : {Absent},
     tags : SUBSET (1..MaxAttrs), ingredients : {{}, {1}}]

NextFilter ==
    \/ Len(tags) < MaxAttrs /\ Attr("tags", 1, "POST", TagA, Absent)
    \/ Len(ingredients) < MaxIngredients
          /\ Attr("ingredients", 1, "POST", TagA, Absent)
    \/ \E cred \in SeededCreds, payload \in FilterRecipePayloads :
          nextRecipeId <= MaxRecipes
            /\ Recipes(cred, "POST", Absent, Absent, payload, FALSE)
    \/ \E cred \in SeededCreds, tq \in FilterTagParams,
          iq \in FilterIngredientParams :
          Recipes(cred, "GET", tq, iq, NoRecipePayload, FALSE)

SpecFilter == TwoUsers /\ [][NextFilter]_vars

(***************************************************************************)
(* SpecUpdate: one recipe of the first user, replaced (PUT) and partially  *)
(* updated (PATCH) with JSON and form payloads.                            *)
(***************************************************************************)
Title2 == <<"p", "a">>
Title_sp == <<" ", "p", "a", "x", " ">>               \* " pax "
UpdateScalars == {[time_minutes |-> AbsentNum, price |-> AbsentNum],
                  [time_minutes |-> 35, price |-> 45]}
RecipeUpdatePayloads ==
    {[title |-> t, time_minutes |-> n.time_minutes, price |-> n.price,
      link |-> Absent, tags |-> tg, ingredients |-> ig] :
        t \in {Absent, Title2, Title_sp}, n \in UpdateScalars,
        tg \in {AbsentIds, {}, {2}}, ig \in {AbsentIds, {1}}}

NextUpdate ==
    \/ Len(tags) < MaxAttrs /\ Attr("tags", 1, "POST", TagA, Absent)
    \/ Len(ingredients) < MaxIngredients
          /\ Attr("ingredients", 1, "POST", TagA, Absent)
    \/ \E payload \in FilterRecipePayloads :
          nextRecipeId <= 1 /\ Recipes(1, "POST", Absent, Absent, payload, FALSE)
    \/ \E m \in {"PUT", "PATCH"}, payload \in RecipeUpdatePayloads,
          html \in BOOLEAN :
          RecipeDetail(1, m, 1, Absent, Absent, payload, html)

SpecUpdate == TwoUsers /\ [][NextUpdate]_vars

(***************************************************************************)
(* SpecOwner: both users create tags, ingredients and a recipe, and send   *)
(* updates and images for the recipe; the payloads carry a user key.       *)
(***************************************************************************)
File_jpg == <<"a", ".", "j", "p", "g">>              \* a.jpg
OwnerPutPayloads ==
    [title : {Title1}, time_minutes : {5}, price : {500}, link : {Absent},
     tags : {{}, {1}}, ingredients : {{}}, user : SeededCreds]
OwnerPatchPayloads ==
    [title : {Absent}, time_minutes : {AbsentNum}, price : {AbsentNum},
     link : {Absent}, tags : {AbsentIds}, ingredients : {AbsentIds, {1}},
     user : SeededCreds]

NextOwner ==
    \/ \E cred \in SeededCreds :
          Len(tags) < MaxTags /\ Attr("tags", cred, "POST", TagA, Absent)
    \/ \E cred \in SeededCreds :
          Len(ingredients) < MaxIngredients
            /\ Attr("ingredients", cred, "POST", TagA, Absent)
    \/ \E cred \in SeededCreds, payload \in OwnerPutPayloads :
          nextRecipeId <= 1
            /\ Recipes(cred, "POST", Absent, Absent, payload, FALSE)
    \/ \E cred \in SeededCreds, payload \in OwnerPutPayloads :
          RecipeDetail(cred, "PUT", 1, Absent, Absent, payload, FALSE)
    \/ \E cred \in SeededCreds, payload \in OwnerPatchPayloads :
          RecipeDetail(cred, "PATCH", 1, Absent, Absent, payload, FALSE)
    \/ \E cred \in SeededCreds, image \in {Absent, File_jpg} :
          UploadImage(cred, "POST", 1, Absent, Absent, image, Uuid1)

SpecOwner == TwoUsers /\ [][NextOwner]_vars

(***************************************************************************)
(* Properties of ownership and access.                                     *)
(***************************************************************************)
OwnerScopedOps == {"me", "tags", "ingredients", "recipes", "recipe_detail",
                   "upload_image"}
Listed == last.method = "GET" /\ last.status = 200

\* C1: a list request made by an identity is answered with entities owned by
\* that identity only (tags, ingredients, recipes), whatever filters the
\* request carries.
C1_ListsOnlyOwnEntities ==
    /\ (last.op = "tags" /\ Listed) =>
          \A i \in DOMAIN last.data : tags[last.data[i].id].user = last.who
    /\ (last.op = "ingredients" /\ Listed) =>
          \A i \in DOMAIN last.data : ingredients[last.data[i].id].user = last.who
    /\ (last.op = "recipes" /\ Listed) =>
          \A r \in DOMAIN last.data : recipes[r].user = last.who

\* The second user lists recipes filtered by the first user's tag; a recipe
\* of the first user carries the tag and is not in the answer, a recipe of
\* the second user is.
C1_Witness ==
    /\ last.op = "recipes" /\ Listed /\ last.who = 2 /\ last.tags_q = Q_1
    /\ Len(tags) >= 1 /\ tags[1].user = 1
    /\ \E r \in DOMAIN recipes :
          recipes[r].user = 1 /\ 1 \in recipes[r].tags /\ r \notin DOMAIN last.data
    /\ DOMAIN last.data # {}

\* C2: every tag and every ingredient linked to a recipe is owned by the
\* recipe's owner, so the detail of a recipe read by its owner never shows a
\* tag or ingredient of another identity.
C2_LinkedEntitiesOwned ==
    /\ \A r \in DOMAIN recipes :
          /\ \A t \in recipes[r].tags : tags[t].user = recipes[r].user
          /\ \A g \in recipes[r].ingredients :
                ingredients[g].user = recipes[r].user
    /\ (last.op = "recipe_detail" /\ Listed) =>
          /\ \A t \in last.data.tags : tags[t.id].user = last.who
          /\ \A g \in last.data.ingredients : ingredients[g.id].user = last.who

C4_ForeignOrMissingIs404 ==
    [][(/\ \/ last'.op = "recipe_detail" /\ last'.method \in {"GET", "PUT", "PATCH"}
           \/ last'.op = "upload_image" /\ last'.method = "POST"
        /\ last'.who # NoUser
        /\ \/ last'.pk \notin DOMAIN recipes
           \/ recipes[last'.pk].user # last'.who)
       => (last'.status = 404 /\ recipes' = recipes)]_vars

(***************************************************************************)
(* SpecStaff: the user manager called with and without the staff flags,    *)
(* and the public user endpoints sent payloads that carry the flags.       *)
(***************************************************************************)
StaffExtras == {[name |-> Name1],
                [name |-> Name1, is_staff |-> TRUE, is_superuser |-> TRUE],
                [name |-> Name1, is_staff |-> TRUE]}
StaffEmails == {Txt_ab, Txt_bb}
StaffRegisterPayloads ==
    [email : StaffEmails, password : {Pw1}, name : {Name1},
     is_staff : {TRUE}, is_superuser : {TRUE}]
StaffUpdatePayloads ==
    [email : {Absent, Txt_ab}, password : {Absent}, name : {Name2},
     is_staff : {TRUE}, is_superuser : {TRUE}]

NextStaff ==
    \/ \E e \in StaffEmails, extra \in StaffExtras : CreateUser(e, Pw1, extra)
    \/ \E e \in StaffEmails : CreateSuperuser(e, Pw1)
    \/ \E payload \in StaffRegisterPayloads : Register(payload)
    \/ \E e \in StaffEmails : CreateToken(e, Pw1)
    \/ \E cred \in Creds, m \in {"GET", "PUT", "PATCH"},
          payload \in StaffUpdatePayloads : Me(cred, m, payload)

SpecStaff == EmptyDatabase /\ [][NextStaff]_vars

(***************************************************************************)
(* SpecPath: recipe_image_filepath called with every short file name.      *)
(***************************************************************************)
FilenameChars == {"a", "j", "."}
Filenames == UNION {[1..n -> FilenameChars] : n \in 0..MaxFilenameLen}
Uuids == {Uuid1, "test-uuid"}
Instances == {0, 1}

NextPath ==
    \E instance \in Instances, filename \in Filenames, uuid \in Uuids :
       CallRecipeImageFilepath(instance, filename, uuid)

SpecPath == EmptyDatabase /\ [][NextPath]_vars

(***************************************************************************)
(* Properties of the identity store.                                       *)
(***************************************************************************)
CreatedDirectly == last.op \in {"create_user", "create_superuser"}
SomePasswords == {<<>>, Pw1, Pw2, PwShort}

\* C5: after createUser(E, P) with a non-empty email E and a password P,
\* verifying (E, P) returns the created identity and verifying (E, P') with
\* any other password P' fails.
C5_CreateThenVerify ==
    (CreatedDirectly /\ last.email \notin {None, <<>>} /\ last.password # None
        /\ last.raised = "") =>
        /\ authenticate(users, last.email, last.password) # NoUser
        /\ authenticate(users, last.email, last.password) = last.id
        /\ \A p \in SomePasswords \ {last.password} :
              authenticate(users, last.email, p) = NoUser

\* C6 as claimed: createUser(E, ...) fails if and only if E is None or the
\* empty string; a failure persists no user, a non-empty E persists one.
C6_FailsIffEmailEmpty ==
    CreatedDirectly =>
        /\ (last.raised # "") <=> (last.email \in {None, <<>>})
        /\ last.raised # "" => users = last.before
        /\ last.email \notin {None, <<>>} => Len(users) = Len(last.before) + 1

\* C6 as amended: createUser(E, ...) raises ValueError if and only if E is
\* None or the empty string, and otherwise fails (IntegrityError) exactly when
\* the normalized E is the email of a stored user; a failure persists no user,
\* every other call appends one user row and leaves the others as they were.
C6_FailsIffEmailEmptyOrTaken ==
    CreatedDirectly =>
        LET empty == last.email \in {None, <<>>}
            taken == \E i \in 1..Len(last.before) :
                        last.before[i].email = normalize_email(last.email)
        IN  /\ (last.raised = "ValueError") <=> empty
            /\ (last.raised = "IntegrityError") <=> (~empty /\ taken)
            /\ last.raised \in {"", "ValueError", "IntegrityError"}
            /\ last.raised # "" => users = last.before
            /\ last.raised = "" =>
                  /\ Len(users) = Len(last.before) + 1
                  /\ SubSeq(users, 1, Len(last.before)) = last.before
                  /\ last.id = Len(users)

\* A call with the empty string raised ValueError after a user was stored.
C6_Witness ==
    /\ last.op = "create_user"
    /\ last.email = <<>>
    /\ last.raised = "ValueError"
    /\ Len(users) = 1
    /\ users = last.before

\* the index of the last "@" of s, 0 if there is none
LastAt(s) == IF Positions(s, "@") = {} THEN 0 ELSE Max(Positions(s, "@"))

\* C7 as claimed: the stored email is E with the part after the last "@"
\* lower-cased and the part before it kept as given, and normalizing the
\* stored email again changes nothing.
C7_StoredEmailNormalized ==
    (CreatedDirectly /\ last.raised = "") =>
        LET E == last.email
            stored == users[last.id].email
        IN  /\ Len(stored) = Len(E)
            /\ \A i \in 1..Len(E) :
                  stored[i] = IF LastAt(E) > 0 /\ i > LastAt(E)
                              THEN LowerChar(E[i]) ELSE E[i]
            /\ normalize_email(stored) = stored

\* C7 as amended: when E contains an "@", surrounding whitespace is first
\* stripped from E; of the result the part after the last "@" is lower-cased
\* and the part before it is kept as given.  An E without "@" is stored as
\* given.  Normalizing the stored email again changes nothing.
C7_StoredEmailStrippedNormalized ==
    (CreatedDirectly /\ last.raised = "") =>
        LET E == IF LastAt(last.email) > 0 THEN Strip(last.email) ELSE last.email
            stored == users[last.id].email
        IN  /\ Len(stored) = Len(E)
            /\ \A i \in 1..Len(E) :
                  stored[i] = IF LastAt(E) > 0 /\ i > LastAt(E)
                              THEN LowerChar(E[i]) ELSE E[i]
            /\ normalize_email(stored) = stored

\* " a@B.cc" was stored as "a@b.cc".
C7_Witness ==
    /\ last.op = "create_user"
    /\ last.raised = ""
    /\ last.email = Txt_sp
    /\ users[last.id].email = Txt_ab

\* C8: no two stored identities have emails that are equal when compared
\* case-insensitively.
C8_EmailsUniqueIgnoringCase ==
    \A i, j \in UserIds :
        i # j => Lower(users[i].email) # Lower(users[j].email)

\* C9: a response of POST /users, GET /users/me or PUT/PATCH /users/me never
\* holds a password, raw or hashed; a success response holds exactly the
\* email and the name.
C9_NoPasswordInResponse ==
    last.op \in {"register", "me"} =>
        /\ last.status \in {200, 201} => DOMAIN last.data = {"email", "name"}
        /\ \A f \in DOMAIN last.data :
              /\ last.data[f] \notin SomePasswords \ {<<>>}
              /\ \A i \in UserIds : last.data[f] # users[i].password

\* A registration was answered 201 with the email and the name.
C9_Witness ==
    /\ last.op = "register"
    /\ last.status = 201
    /\ last.data = [email |-> Txt_ab, name |-> Name1]
    /\ users[last.id].password = make_password(Pw1)

\* C10: after a profile update that carries a password P2, verifying the
\* identity's email with P2 succeeds and with the previous password (when it
\* differs from P2) fails; after an update without a password the previous
\* password still verifies; the name and the email hold the values given.
C10_ProfileUpdate ==
    (last.op = "me" /\ last.method \in {"PUT", "PATCH"} /\ last.status = 200) =>
        LET u == last.who
            v == last.validated
            old == last.before[u]
        IN  /\ v.password # Absent =>
                  /\ authenticate(users, users[u].email, v.password) = u
                  /\ \A p \in SomePasswords \ {v.password} :
                        check_password(p, old.password) =>
                            authenticate(users, users[u].email, p) = NoUser
            /\ v.password = Absent =>
                  \A p \in SomePasswords :
                      check_password(p, old.password) =>
                          authenticate(users, users[u].email, p) = u
            /\ v.name # Absent => users[u].name = v.name
            /\ v.email # Absent => users[u].email = v.email

\* A PATCH replaced the password Pw1 by Pw2 and the name by Name2.
C10_Witness ==
    /\ last.op = "me"
    /\ last.method = "PATCH"
    /\ last.status = 200
    /\ last.validated.password = Pw2
    /\ last.validated.name = Name2
    /\ check_password(Pw1, last.before[last.who].password)
    /\ authenticate(users, users[last.who].email, Pw2) = last.who

(***************************************************************************)
(* Properties of the token exchange and of registration.                   *)
(***************************************************************************)
\* the credentials of the last token exchange are those of a stored, active
\* user: both fields are given and not blank, the email (as the serializer
\* reads it, trimmed) is a stored email and the password matches its hash
GoodCredentials ==
    /\ last.email \notin {Absent, <<>>} /\ last.password \notin {Absent, <<>>}
    /\ \E u \in UserIds :
          /\ users[u].email = Strip(last.email)
          /\ users[u].is_active
          /\ check_password(last.password, users[u].password)

\* C11: a token exchange returns a token only for the email of a stored,
\* active identity with the matching password; a wrong password, an unknown
\* email, an inactive account and a missing or blank field are answered 400
\* without a token.
C11_TokenOnlyForGoodCredentials ==
    last.op = "token" =>
       /\ "token" \in DOMAIN last.data => (GoodCredentials /\ last.status = 200)
       /\ ~GoodCredentials =>
             (last.status = 400 /\ "token" \notin DOMAIN last.data)

\* the right email and password of an inactive account are refused
C11_Witness ==
    /\ last.op = "token" /\ last.status = 400
    /\ \E u \in UserIds :
          /\ users[u].email = last.email
          /\ ~users[u].is_active
          /\ check_password(last.password, users[u].password)

\* the last registration was refused, or asked for an email that a user
\* stored before the request holds (as create_user stores it)
RegistrationRejected ==
    /\ last.op = "register"
    /\ \/ last.status = 400
       \/ /\ last.validated.email # Absent
          /\ \E u \in 1..Len(last.before) :
                last.before[u].email = normalize_email(last.validated.email)

\* C12: a registration rejected for a password shorter than 8 characters or
\* for an email that already belongs to an identity is answered 400 and
\* leaves the users as they were.
C12_RejectedRegistrationIs400 ==
    RegistrationRejected => (last.status = 400 /\ users = last.before)

Elevated(user) == user.is_staff /\ user.is_superuser
Privileged(user) == user.is_staff \/ user.is_superuser
PublicUserOps == {"register", "token", "me"}

\* a step of a public user endpoint neither creates a staff or superuser
\* account nor turns an account into one
PublicStepsDoNotElevate ==
    last'.op \in PublicUserOps =>
       \A u \in 1..Len(users') :
          Privileged(users'[u]) => (u <= Len(users) /\ Privileged(users[u]))

\* C13: an identity has the staff and the superuser flag set if and only if
\* create_superuser created it, and no public user endpoint creates or
\* turns an identity into a staff or superuser account, whatever its
\* payload carries.
C13_StaffIffCreateSuperuser ==
    [][(\A u \in 1..Len(users') :
           Elevated(users'[u]) <=>
              (IF u <= Len(users) THEN Elevated(users[u])
               ELSE last'.op = "create_superuser"))
       /\ PublicStepsDoNotElevate]_vars

\* C13 (amended): an identity has both flags set if and only if it was
\* created by create_superuser or by create_user called with both flags
\* among its extra fields; no public user endpoint creates or turns an
\* identity into a staff or superuser account.
C13_StaffOnlyByManagerCall ==
    [][(\A u \in 1..Len(users') :
           Elevated(users'[u]) <=>
              (IF u <= Len(users) THEN Elevated(users[u])
               ELSE (\/ last'.op = "create_superuser"
                     \/ /\ last'.op = "create_user"
                        /\ ExtraField(last'.extra, "is_staff", FALSE)
                        /\ ExtraField(last'.extra, "is_superuser", FALSE))))
       /\ PublicStepsDoNotElevate]_vars

\* a superuser is stored, and another user's PATCH of the profile with
\* is_staff and is_superuser in the payload succeeded
C13_Witness ==
    /\ last.op = "me" /\ last.method = "PATCH" /\ last.status = 200
    /\ ExtraField(last.extra, "is_staff", FALSE)
    /\ ~Privileged(users[last.who])
    /\ \E u \in UserIds : Elevated(users[u])

(***************************************************************************)
(* Properties of the image path.                                           *)
(***************************************************************************)
HasDot(filename) == Positions(filename, ".") # {}
\* the part of the file name after its final dot
AfterFinalDot(filename) ==
    SubSeq(filename, Max(Positions(filename, ".")) + 1, Len(filename))
PathOf(uuid, ext) == <<"uploads/recipe/", uuid, ".">> \o ext

\* C14: for every file name and every identifier u the generator returns,
\* the path is 'uploads/recipe/' + u + '.' + ext with ext the part of the
\* file name after its final dot, whatever the instance.
C14_PathIsUuidDotExtension ==
    last.op = "recipe_image_filepath" =>
       /\ HasDot(last.name)
       /\ last.data = PathOf(last.extra.uuid, AfterFinalDot(last.name))

\* C14 (amended): ext is the part of the file name after its final dot, and
\* the whole file name when it has no dot.
C14_PathIsUuidDotExtensionOrName ==
    last.op = "recipe_image_filepath" =>
       last.data = PathOf(last.extra.uuid,
                          IF HasDot(last.name) THEN AfterFinalDot(last.name)
                          ELSE last.name)

\* a file name with two dots, called with no instance
C14_Witness ==
    /\ last.op = "recipe_image_filepath" /\ last.pk = 0
    /\ last.name = <<"a", ".", ".", "j">>
    /\ last.data = <<"uploads/recipe/", "test-uuid", ".", "j">>

(***************************************************************************)
(* Properties of the tag and ingredient lists.                             *)
(***************************************************************************)
AttrListed == last.op \in {"tags", "ingredients"} /\ Listed
\* the ids of the caller's tags (ingredients) that some recipe is linked to
AssignedTo(view, user) ==
    IF view = "tags"
    THEN {t \in 1..Len(tags) :
            tags[t].user = user /\ \E r \in DOMAIN recipes : t \in recipes[r].tags}
    ELSE {g \in 1..Len(ingredients) :
            ingredients[g].user = user
              /\ \E r \in DOMAIN recipes : g \in recipes[r].ingredients}

\* C15: a tag or ingredient list asked with assigned_only=1 holds exactly the
\* caller's entities linked to at least one recipe, each of them once.
C15_AssignedOnly ==
    (AttrListed /\ last.extra.assigned_only = One) =>
       /\ {last.data[i].id : i \in DOMAIN last.data} = AssignedTo(last.op, last.who)
       /\ \A i, j \in DOMAIN last.data :
             last.data[i].id = last.data[j].id => i = j

\* C16: a tag or ingredient list is ordered by name descending: of two
\* adjacent entries the first name is greater than or equal to the second.
C16_NameDescending ==
    AttrListed =>
       \A i \in 1..(Len(last.data) - 1) :
          TextLeq(last.data[i + 1].name, last.data[i].name)

\* two entries of different names, the one created later listed first
C16_Witness ==
    /\ AttrListed /\ Len(last.data) = 2
    /\ last.data[1].name # last.data[2].name
    /\ last.data[1].id > last.data[2].id

(***************************************************************************)
(* Properties of the recipe list and of recipe updates.                    *)
(***************************************************************************)
\* the ids a filter value of the specifications stands for
QueryIds(q) ==
    CASE q = Q_1 -> {1}
      [] q = Q_2 -> {2}
      [] q = Q_12 -> {1, 2}
      [] OTHER -> {}

\* the caller's recipes linked to a tag among T (if T is given) and to an
\* ingredient among G (if G is given)
Matching(user, T, G) ==
    {r \in DOMAIN recipes :
        /\ recipes[r].user = user
        /\ T # Absent => recipes[r].tags \cap QueryIds(T) # {}
        /\ G # Absent => recipes[r].ingredients \cap QueryIds(G) # {}}

\* C17: a recipe list asked with tags=T and/or ingredients=G holds exactly
\* the caller's recipes linked to at least one tag of T (when given) and to
\* at least one ingredient of G (when given).
C17_FilteredRecipes ==
    (last.op = "recipes" /\ Listed) =>
       DOMAIN last.data = Matching(last.who, last.tags_q, last.ingredients_q)

\* both filters given: one recipe of the caller matches both and is listed,
\* another matches the tags only and is not
C17_Witness ==
    /\ last.op = "recipes" /\ Listed
    /\ last.tags_q = Q_12 /\ last.ingredients_q = Q_1
    /\ DOMAIN last.data # {}
    /\ \E r \in DOMAIN recipes \ DOMAIN last.data :
          /\ recipes[r].user = last.who
          /\ recipes[r].tags # {} /\ recipes[r].ingredients = {}

Updated(method) ==
    last.op = "recipe_detail" /\ last.method = method /\ last.status = 200

C20_OwnerIsCreatorForever ==
    [][(\A t \in 1..Len(tags') :
           tags'[t].user =
              (IF t <= Len(tags) THEN tags[t].user ELSE last'.who))
       /\ (\A g \in 1..Len(ingredients') :
             ingredients'[g].user =
                (IF g <= Len(ingredients) THEN ingredients[g].user ELSE last'.who))
       /\ (\A r \in DOMAIN recipes' :
             recipes'[r].user =
                (IF r \in DOMAIN recipes THEN recipes[r].user ELSE last'.who))]_vars

\* the second user's recipe after its PATCH with the first user as 'user'
C20_Witness ==
    /\ Updated("PATCH") /\ last.who = 2
    /\ last.extra.payload.user = 1
    /\ recipes[last.pk].user = 2
    /\ recipes[last.pk].image # None

(***************************************************************************)
(* SpecInvalid: user 1 creates tags, ingredients and recipes and both      *)
(* users send updates for recipe 1; names and titles are valid, empty,     *)
(* blank or missing.                                                       *)
(***************************************************************************)
Blank == <<" ">>
InvalidNames == {Absent, <<>>, Blank}
InvalidPayloads ==
    {[title |-> t, time_minutes |-> n.time_minutes, price |-> n.price,
      link |-> Absent, tags |-> tg, ingredients |-> {}] :
        t \in InvalidNames \cup {Title1, Title2}, n \in UpdateScalars,
        tg \in {AbsentIds, {}}}

NextInvalid ==
    \/ \E view \in {"tags", "ingredients"}, name \in InvalidNames :
          Attr(view, 1, "POST", name, Absent)
    \/ Len(tags) < MaxTags /\ Attr("tags", 1, "POST", TagA, Absent)
    \/ Len(ingredients) < MaxIngredients
          /\ Attr("ingredients", 1, "POST", TagA, Absent)
    \/ \E payload \in InvalidPayloads, html \in BOOLEAN :
          nextRecipeId <= MaxRecipes
             /\ Recipes(1, "POST", Absent, Absent, payload, html)
    \/ \E cred \in SeededCreds, m \in {"PUT", "PATCH"},
          payload \in InvalidPayloads, html \in BOOLEAN :
          RecipeDetail(cred, m, 1, Absent, Absent, payload, html)

SpecInvalid == TwoUsers /\ [][NextInvalid]_vars

\* a tag or ingredient creation by an authenticated user with an empty name
EmptyNameRequest(l) ==
    /\ l.op \in {"tags", "ingredients"}
    /\ l.method = "POST"
    /\ l.who # NoUser
    /\ l.name = <<>>

\* a recipe creation, or an update of a recipe of the caller, whose payload
\* was handed to the serializer
TitleRequest(l) ==
    /\ l.op \in {"recipes", "recipe_detail"}
    /\ l.method \in {"POST", "PUT", "PATCH"}
    /\ "payload" \in DOMAIN l.extra

\* C21 as stated: creating a tag or ingredient with an empty name, and
\* creating or updating (PUT or PATCH) a recipe with an empty or missing
\* title, answers 400 and leaves every stored entity unchanged.
C21_InvalidIs400 ==
    [][(EmptyNameRequest(last')
          \/ (TitleRequest(last')
                /\ last'.extra.payload.title \in {Absent, <<>>}))
        => (last'.status = 400 /\ store' = store)]_vars

\* C21: creating a tag or ingredient with an empty name, creating or
\* replacing (PUT) a recipe with an empty or missing title, and patching a
\* recipe with an empty title, answers 400 and leaves every stored entity
\* unchanged; a PATCH without a title is a valid partial update.
C21_InvalidIs400UnlessPatchOmits ==
    [][(EmptyNameRequest(last')
          \/ (TitleRequest(last')
                /\ (last'.extra.payload.title = <<>>
                      \/ (last'.extra.payload.title = Absent
                            /\ last'.method # "PATCH"))))
        => (last'.status = 400 /\ store' = store)]_vars

C21_Witness ==
    /\ last.op = "recipe_detail"
    /\ last.method = "PATCH"
    /\ last.status = 400
    /\ last.extra.payload.title = <<>>
    /\ last.extra.payload.price = 45
    /\ last.who = 1
    /\ 1 \in DOMAIN recipes
    /\ recipes[1].title = Title1
    /\ recipes[1].price = 45

\* the methods the interface table lists for each endpoint
ListedMethods(op) ==
    CASE op = "me" -> {"GET", "PATCH"}
      [] op \in {"tags", "ingredients", "recipes"} -> {"GET", "POST"}
      [] op = "recipe_detail" -> {"GET", "PUT", "PATCH"}
      [] op = "upload_image" -> {"POST"}
      [] OTHER -> {"POST"}

\* no tag, ingredient or recipe of the state before is missing after
NothingRemoved ==
    /\ Len(tags') >= Len(tags)
    /\ Len(ingredients') >= Len(ingredients)
    /\ DOMAIN recipes \subseteq DOMAIN recipes'

\* C22: an authenticated request with a method the interface table does
\* not list for its endpoint is answered 405 and changes nothing, and no
\* request removes a stored tag, ingredient or recipe.
C22_UnlistedMethodIs405 ==
    [][(NothingRemoved)
       /\ ((last'.who # NoUser /\ last'.method \notin ListedMethods(last'.op))
              => (last'.status = 405 /\ store' = store))]_vars

(***************************************************************************)
(* SpecUpload: the users create recipes and post images for them: image    *)
(* files, an empty value, a value that is no image, nothing.               *)
(***************************************************************************)
Uuid2 == "uuid-2"
File_png == <<"b", ".", "P", "N", "G">>              \* b.PNG
UploadImages == {Absent, None, NotImage, File_jpg, File_png}
UploadRecipePayload ==
    [title |-> Title1, time_minutes |-> 5, price |-> 500, link |-> Absent,
     tags |-> {}, ingredients |-> {}]

NextUpload ==
    \/ \E cred \in SeededCreds :
          nextRecipeId <= MaxRecipes
            /\ Recipes(cred, "POST", Absent, Absent, UploadRecipePayload, FALSE)
    \/ \E cred \in SeededCreds, pk \in Pks, image \in UploadImages,
          uuid \in {Uuid1, Uuid2} :
          UploadImage(cred, "POST", pk, Absent, Absent, image, uuid)

SpecUpload == TwoUsers /\ [][NextUpload]_vars

\* an upload-image request of the owner of the recipe
OwnerUpload(l) ==
    /\ l.op = "upload_image"
    /\ l.method = "POST"
    /\ l.who # NoUser
    /\ l.pk \in DOMAIN recipes
    /\ recipes[l.pk].user = l.who
    /\ l.tags_q = Absent
    /\ l.ingredients_q = Absent

\* C23: an upload-image request of the owner with a valid image answers
\* 200 and sets the image reference to uploads/recipe/<uuid>.<extension>,
\* leaving the other fields; with a payload that is not a valid image it
\* answers 400 and leaves the recipe, its image reference included,
\* unchanged.
C23_UploadSetsPathOrRejects ==
    [][OwnerUpload(last')
        => (IF ValidImage(last'.extra.image)
            THEN (last'.status = 200)
                  /\ (recipes' = [recipes EXCEPT ![last'.pk].image =
                          PathOf(last'.extra.uuid,
                                 AfterFinalDot(last'.extra.image))])
            ELSE (last'.status = 400) /\ (store' = store))]_vars

(***************************************************************************)
(* wait_for_db: Command.handle, one step per statement of the loop.        *)
(* wait.db is the database as the command meets it: db[i] says whether     *)
(* connections['default'] returns a connection at attempt i (TRUE) or      *)
(* raises OperationalError (FALSE); past the end the database stays down.  *)
(***************************************************************************)
MaxSchedule == 6
MaxAttempts == 8

Msg_Waiting == "Waiting for database..."
Msg_NotReady == "Database not ready, wait for 1 second..."
Msg_Ready == "The Database is ready!"

Schedules == UNION {[1..n -> BOOLEAN] : n \in 0..MaxSchedule}

\* connections['default'] at the given attempt returns a connection
Connects(db, attempt) == attempt <= Len(db) /\ db[attempt]

\* self.stdout.write('Waiting for database...'); db_conn = None
Announce ==
    /\ wait.pc = "start"
    /\ wait' = [wait EXCEPT !.pc = "loop", !.db_conn = FALSE,
                   !.out = Append(@, Msg_Waiting)]
    /\ UNCHANGED <<store, last, inflight>>

\* the except branch without its time.sleep(1): the loop tries again at once
Attempt_NoSleep ==
    /\ wait.pc = "loop"
    /\ ~wait.db_conn
    /\ wait.attempts < MaxAttempts
    /\ IF Connects(wait.db, wait.attempts + 1)
       THEN wait' = [wait EXCEPT !.attempts = @ + 1, !.db_conn = TRUE]
       ELSE wait' = [wait EXCEPT !.attempts = @ + 1,
                        !.out = Append(@, Msg_NotReady)]
    /\ UNCHANGED <<store, last, inflight>>

\* while not db_conn: try: db_conn = connections['default'];
\* except OperationalError: self.stdout.write('Database not ready, ...')
Attempt ==
    /\ wait.pc = "loop"
    /\ ~wait.db_conn
    /\ wait.attempts < MaxAttempts
    /\ IF Connects(wait.db, wait.attempts + 1)
       THEN wait' = [wait EXCEPT !.attempts = @ + 1, !.db_conn = TRUE]
       ELSE wait' = [wait EXCEPT !.attempts = @ + 1, !.pc = "sleep",
                        !.out = Append(@, Msg_NotReady)]
    /\ UNCHANGED <<store, last, inflight>>

\* time.sleep(1)
Sleep ==
    /\ wait.pc = "sleep"
    /\ wait' = [wait EXCEPT !.sleeps = @ + 1, !.pc = "loop"]
    /\ UNCHANGED <<store, last, inflight>>

\* the loop ends: self.stdout.write(self.style.SUCCESS('The Database is ready!'))
Report ==
    /\ wait.pc = "loop"
    /\ wait.db_conn
    /\ wait' = [wait EXCEPT !.pc = "done", !.out = Append(@, Msg_Ready)]
    /\ UNCHANGED <<store, last, inflight>>

WaitInit ==
    /\ users = <<>>
    /\ tokens = {}
    /\ tags = <<>>
    /\ ingredients = <<>>
    /\ recipes = <<>>
    /\ nextRecipeId = 1
    /\ last = NoLast
    /\ inflight = NoInflight
    /\ wait \in {[NoWait EXCEPT !.pc = "start", !.db = d] : d \in Schedules}

NextWait == Announce \/ Attempt \/ Sleep \/ Report

\* The command is one sequential process: it takes its next statement as
\* long as it has one.
SpecWait == WaitInit /\ [][NextWait]_vars /\ WF_vars(NextWait)

\* the first attempt at which the database is available, 0 if there is none
FirstSuccess(db) ==
    IF \E i \in DOMAIN db : db[i]
    THEN CHOOSE i \in DOMAIN db : db[i] /\ \A j \in 1..(i - 1) : ~db[j]
    ELSE 0

Count(seq, x) == Cardinality({i \in DOMAIN seq : seq[i] = x})

\* C24: when the first N attempts raise OperationalError and attempt N+1
\* succeeds, wait_for_db makes exactly N+1 attempts and N sleeps, reports
\* readiness and ends; it makes no attempt after a successful one; when no
\* attempt succeeds it never reports readiness and never ends.
C24_WaitForDb ==
    /\ [](LET n == FirstSuccess(wait.db)
          IN  /\ n > 0 => wait.attempts <= n
              /\ wait.pc = "done"
                   => /\ n > 0
                      /\ wait.attempts = n
                      /\ wait.sleeps = n - 1
                      /\ Count(wait.out, Msg_NotReady) = n - 1
                      /\ wait.out[Len(wait.out)] = Msg_Ready
              /\ Count(wait.out, Msg_Ready) > 0 => wait.pc = "done"
              /\ n = 0 => wait.pc # "done")
    /\ (FirstSuccess(wait.db) > 0 => <>(wait.pc = "done"))

\* five failing attempts, then the database is there (test_wait_for_db)
C24_Witness ==
    /\ wait.pc = "done"
    /\ wait.attempts = 6
    /\ wait.sleeps = 5
    /\ wait.out[Len(wait.out)] = Msg_Ready

(***************************************************************************)
(* Requests on concurrent connections.  A request in progress has a slot   *)
(* in inflight; each of its database statements is a step of its own, and  *)
(* the requests of the other connections run between the steps.            *)
(***************************************************************************)
MaxRequests == 2

\* DATABASES['default']['ATOMIC_REQUESTS']: each request runs in one
\* transaction, whose writes the other connections see at its commit.
ATOMIC_REQUESTS == TRUE

Slot(op, pc, who, payload, status) ==
    [op |-> op, pc |-> pc, who |-> who, payload |-> payload, id |-> 0,
     status |-> status]

\* the row of a recipe creation in progress with the relationship rows
\* written so far
RowSoFar(r) ==
    LET full == RecipeCreated(r.who, RecipeValidated(r.payload, FALSE, FALSE))
    IN  [full EXCEPT
           !.tags = IF r.pc \in {"tags", "ingredients"} THEN @ ELSE {},
           !.ingredients = IF r.pc = "ingredients" THEN @ ELSE {}]

\* every statement of a request commits on its own (autocommit)
Visible_Autocommit(r) ==
    [k \in DOMAIN recipes \cup {r.id} |->
        IF k = r.id THEN RowSoFar([r EXCEPT !.pc =
                                    IF @ = "done" THEN "ingredients" ELSE @])
        ELSE recipes[k]]

\* the recipe rows the other connections see after a statement of the
\* request r: the rows its save() has written, once they are committed
Visible(r) ==
    IF ATOMIC_REQUESTS /\ r.pc # "done" THEN recipes
    ELSE [k \in DOMAIN recipes \cup {r.id} |->
             IF k = r.id THEN RowSoFar([r EXCEPT !.pc =
                                         IF @ = "done" THEN "ingredients" ELSE @])
             ELSE recipes[k]]

\* POST /recipes up to serializer.is_valid()
BeginCreateRecipe(cred, payload) ==
    /\ Len(inflight) < MaxRequests
    /\ ~Unauthorized("recipes", cred)
    /\ TokenAuthentication(cred) # NoUser
    /\ LET who == TokenAuthentication(cred)
           errors == RecipeFieldErrors(payload, FALSE, FALSE)
       IN  inflight' = Append(inflight,
               IF errors # {} THEN Slot("recipes", "done", who, payload, 400)
               ELSE Slot("recipes", "validated", who, payload, 0))
    /\ UNCHANGED <<store, last, wait>>

\* ModelSerializer.create: the INSERT of the recipe row
InsertRecipeRow(i) ==
    /\ inflight[i].op = "recipes"
    /\ inflight[i].pc = "validated"
    /\ LET r == [inflight[i] EXCEPT !.pc = "row", !.id = nextRecipeId]
       IN  /\ inflight' = [inflight EXCEPT ![i] = r]
           /\ recipes' = Visible(r)
    /\ nextRecipeId' = nextRecipeId + 1
    /\ UNCHANGED <<users, tokens, tags, ingredients, last, wait>>

\* ModelSerializer.create: field.set(value) for tags, then for ingredients
SetRelation(i) ==
    /\ inflight[i].op = "recipes"
    /\ inflight[i].pc \in {"row", "tags"}
    /\ LET r == [inflight[i] EXCEPT
                    !.pc = IF @ = "row" THEN "tags" ELSE "ingredients"]
       IN  /\ inflight' = [inflight EXCEPT ![i] = r]
           /\ recipes' = Visible(r)
    /\ UNCHANGED <<users, tokens, tags, ingredients, nextRecipeId, last, wait>>

\* the response, and the commit of the request's transaction
FinishCreateRecipe(i) ==
    /\ inflight[i].op = "recipes"
    /\ inflight[i].pc = "ingredients"
    /\ LET r == [inflight[i] EXCEPT !.pc = "done", !.status = 201]
       IN  /\ inflight' = [inflight EXCEPT ![i] = r]
           /\ recipes' = Visible(r)
    /\ UNCHANGED <<users, tokens, tags, ingredients, nextRecipeId, last, wait>>

(***************************************************************************)
(* SpecAtomic: recipes created step by step on two connections while both *)
(* users read recipes.                                                     *)
(***************************************************************************)
AtomicRecipePayloads ==
    [title : {Title1}, time_minutes : {5}, price : {500}, link : {Absent},
     tags : {{1}}, ingredients : {{}, {1}}]

NextAtomic ==
    \/ Len(tags) < MaxTags /\ Attr("tags", 1, "POST", TagA, Absent)
    \/ Len(ingredients) < MaxIngredients
          /\ Attr("ingredients", 1, "POST", TagA, Absent)
    \/ \E cred \in SeededCreds, payload \in AtomicRecipePayloads :
          BeginCreateRecipe(cred, payload)
    \/ \E i \in DOMAIN inflight : InsertRecipeRow(i)
    \/ \E i \in DOMAIN inflight : SetRelation(i)
    \/ \E i \in DOMAIN inflight : FinishCreateRecipe(i)
    \/ \E cred \in SeededCreds, pk \in Pks :
          RecipeDetail(cred, "GET", pk, Absent, Absent, NoRecipePayload, FALSE)
    \/ \E cred \in SeededCreds :
          Recipes(cred, "GET", Absent, Absent, NoRecipePayload, FALSE)

SpecAtomic == TwoUsers /\ [][NextAtomic]_vars

\* the ids of the nested objects of a detail representation
Ids(objects) == {o.id : o \in objects}

C26_ListedOnce ==
    (last.op = "recipes" /\ last.method = "GET" /\ last.status = 200)
        => \A id \in DOMAIN last.data : last.data[id] = 1

(***************************************************************************)
(* SpecParams: recipe lists asked with well-formed and malformed values    *)
(* of the tags and ingredients parameters.                                 *)
(***************************************************************************)
Q_1cc2 == <<"1", ",", ",", "2">>                     \* 1,,2
Q_1c == <<"1", ",">>                                 \* 1,
Q_s1s == <<" ", "1", " ">>                           \* " 1 "
IdListParams == {Absent, Q_1, Q_x, Q_1cc2, Q_1c, Q_s1s}
ParamsRecipePayloads ==
    [title : {Title1}, time_minutes : {5}, price : {500}, link : {Absent},
     tags : SUBSET (1..MaxTags), ingredients : SUBSET (1..MaxIngredients)]

NextParams ==
    \/ Len(tags) < MaxTags /\ Attr("tags", 1, "POST", TagA, Absent)
    \/ Len(ingredients) < MaxIngredients
          /\ Attr("ingredients", 1, "POST", TagA, Absent)
    \/ \E payload \in ParamsRecipePayloads :
          nextRecipeId <= MaxRecipes
            /\ Recipes(1, "POST", Absent, Absent, payload, FALSE)
    \/ \E cred \in SeededCreds, tq \in IdListParams, iq \in IdListParams :
          Recipes(cred, "GET", tq, iq, NoRecipePayload, FALSE)

SpecParams == TwoUsers /\ [][NextParams]_vars

\* the status codes the interface documents
DocumentedStatus == {200, 201, 400, 401, 404, 405}

\* C27: an authenticated recipe list request ends with a documented status
\* code whatever the values of its tags and ingredients parameters.
C27_ListStatusDocumented ==
    (last.op = "recipes" /\ last.method = "GET")
        => last.status \in DocumentedStatus

\* C28: after any sequence of registrations and profile updates every
\* stored email is normalized (its domain part is lower-case), an email
\* changed through /users/me included.
C28_StoredEmailsNormalized ==
    \A u \in UserIds : users[u].email = normalize_email(users[u].email)

\* C30: a GET or PATCH on /users/me by an authenticated identity reads or
\* modifies the record of that identity only: the email, name, password
\* hash and flags of every other identity are as before, whatever the
\* payload, no identity is added or removed, and a GET answers the
\* caller's own email and name.
C30_MeTouchesOnlyCaller ==
    [][(last'.op = "me" /\ last'.who # NoUser
          /\ last'.method \in {"GET", "PATCH"})
        => ((Len(users') = Len(users))
             /\ (\A j \in UserIds \ {last'.who} : users'[j] = users[j])
             /\ ((last'.method = "GET")
                   => ((last'.status = 200)
                        /\ (users' = users)
                        /\ (last'.data = [email |-> users[last'.who].email,
                                          name |-> users[last'.who].name]))))]_vars

\* the second identity changed its own record while the first is stored
C30_Witness ==
    /\ last.op = "me"
    /\ last.method = "PATCH"
    /\ last.status = 200
    /\ last.who = 2
    /\ Len(users) = 2
    /\ users[2] # last.before[2]
    /\ users[1] = last.before[1]

(***************************************************************************)
(* SpecRace: registrations with the same email on concurrent connections:  *)
(* serializer.is_valid() and serializer.save() of a request are two steps, *)
(* and the steps of the other requests run between them.                   *)
(***************************************************************************)
RacePayloads ==
    [email : {Txt_ab, Txt_aB, Txt_sp}, password : {Pw1, PwShort},
     name : {Name1, Name2}]

\* POST /users up to serializer.is_valid(): the UniqueValidator reads the
\* users stored at that moment
BeginRegister(payload) ==
    /\ Len(inflight) < MaxRequests
    /\ \A j \in DOMAIN inflight : inflight[j].payload.email = payload.email
    /\ LET errors == UserFieldErrors(users, payload, FALSE, NoUser)
       IN  inflight' = Append(inflight,
               IF errors # {} THEN Slot("register", "done", NoUser, payload, 400)
               ELSE Slot("register", "validated", NoUser, payload, 0))
    /\ UNCHANGED <<store, last, wait>>

\* serializer.save(): UserSerializer.create calls create_user; the INSERT
\* meets the unique index of the email column
SaveUser(i) ==
    /\ inflight[i].op = "register"
    /\ inflight[i].pc = "validated"
    /\ LET v == UserValidated(inflight[i].payload)
           r == create_user(users, v.email, v.password, [name |-> v.name])
       IN  /\ users' = r.users
           /\ inflight' = [inflight EXCEPT ![i].pc = "done", ![i].id = r.id,
                              ![i].status = IF r.raised # "" THEN 500 ELSE 201]
    /\ UNCHANGED <<tokens, tags, ingredients, recipes, nextRecipeId, last, wait>>

NextRace ==
    \/ \E payload \in RacePayloads : BeginRegister(payload)
    \/ \E i \in DOMAIN inflight : SaveUser(i)

SpecRace == EmptyDatabase /\ [][NextRace]_vars

\* C29: of the concurrent registrations with the same email at most one is
\* answered with success, and at most one identity with that email is
\* stored, however their validate and save steps interleave.
C29_OneRegistrationWins ==
    /\ Cardinality({i \in DOMAIN inflight :
                      inflight[i].op = "register" /\ inflight[i].status = 201}) <= 1
    /\ \A i \in DOMAIN inflight :
          inflight[i].op = "register" =>
             Cardinality({u \in UserIds :
                 users[u].email =
                    normalize_email(UserValidated(inflight[i].payload).email)}) <= 1

\* both requests passed validation before either saved: the first save is
\* answered 201, the second meets the unique index
C29_Witness ==
    /\ Len(inflight) = 2
    /\ inflight[1].op = "register"
    /\ inflight[1].status = 500
    /\ inflight[2].status = 201
    /\ Len(users) = 1

====
